---- MODULE Spec2Model ----
(***************************************************************************)
(* State-machine model of the services of the repository:                  *)
(*   - the User Service of src/day2/app.py (in-memory store USERS/USER_ID, *)
(*     the handlers create_user, list_users, get_user, replace_user,       *)
(*     patch_user, delete_user and the background task send_welcome_email),*)
(*   - the Student Service of src/student/main.py (the session dependency  *)
(*     get_db around the five handlers).                                   *)
(* Strings are sequences of one-character strings, so that str.lower() and *)
(* the substring test of list_users are computed, not assumed.  A Python   *)
(* value that may be None is a sequence of length 0 (None) or 1 (a value). *)
(***************************************************************************)
EXTENDS Integers, Sequences, FiniteSets, TLC

\* User Service: the globals USERS and USER_ID of app.py, the clock last read
\* by datetime.utcnow(), the scheduled welcome tasks, the last response, and
\* two records of the client: the ids the 201 responses returned, and the
\* Create inputs of the ids no write request has been addressed to since
VARIABLES USERS, USER_ID, now, tasks, resp, issued, created

\* Student Service: the rows of the table, the next id of the storage engine,
\* and the requests in flight
VARIABLES students, student_id, reqs

uvars == <<USERS, USER_ID, now, tasks, resp, issued, created>>
svars == <<students, student_id, reqs>>
vars == <<uvars, svars>>

(***************************************************************************)
(* Bounds of the model.                                                    *)
(***************************************************************************)
MaxId == 2
MaxClock == 1
MaxReq == 2
MaxStudentId == 2

(***************************************************************************)
(* Constants of the program (Field / constr / Query limits).               *)
(***************************************************************************)
MinNameLen == 3
MaxNameLen == 50
MinAge == 13
MaxAge == 120
MaxBioLen == 200
MinAddrLen == 2
MaxAddrLen == 50
MinPage == 1
MinLimit == 1
MaxLimit == 100
MinQLen == 2
MinUserId == 1

(***************************************************************************)
(* Python values.                                                          *)
(***************************************************************************)
None == <<>>
Some(x) == <<x>>
Val(o) == o[1]

UpperChars == <<"A","B","C","D","E","F","G","H","I","J","K","L","M",
                "N","O","P","Q","R","S","T","U","V","W","X","Y","Z">>
LowerChars == <<"a","b","c","d","e","f","g","h","i","j","k","l","m",
                "n","o","p","q","r","s","t","u","v","w","x","y","z">>

\* str.lower() on one character
LowerChar(c) ==
    IF \E i \in DOMAIN UpperChars : UpperChars[i] = c
    THEN LowerChars[CHOOSE i \in DOMAIN UpperChars : UpperChars[i] = c]
    ELSE c

\* str.lower()
lower(s) == [i \in DOMAIN s |-> LowerChar(s[i])]

\* Python's  sub in s  for strings
StrIn(sub, s) ==
    \E k \in 0..(Len(s) - Len(sub)) :
        \A j \in 1..Len(sub) : s[k + j] = sub[j]

(***************************************************************************)
(* Pydantic schemas: Address, UserCreate, UserUpdate, UserResponse.        *)
(***************************************************************************)
PayloadFields == {"name", "email", "age", "bio", "addresses"}

Address(a) ==
    /\ Len(a.city) >= MinAddrLen /\ Len(a.city) <= MaxAddrLen
    /\ Len(a.country) >= MinAddrLen /\ Len(a.country) <= MaxAddrLen

NameOk(v) == Len(v) >= MinNameLen /\ Len(v) <= MaxNameLen
AgeOk(v) == v >= MinAge /\ v <= MaxAge
BioOk(v) == Len(v) <= MaxBioLen
AddressesOk(v) == \A i \in DOMAIN v : Address(v[i])

\* the constraint of one field on a value that is not None
FieldOk(f, v) ==
    CASE f = "name" -> NameOk(v)
      [] f = "email" -> TRUE
      [] f = "age" -> AgeOk(v)
      [] f = "bio" -> BioOk(v)
      [] f = "addresses" -> AddressesOk(v)

\* UserCreate: name, email, age required and not None; bio Optional with
\* default None; addresses a list with default []
UserCreateDefaults == [bio |-> None, addresses |-> Some(<<>>)]

UserCreateValid(body) ==
    /\ {"name", "email", "age"} \subseteq DOMAIN body
    /\ \A f \in DOMAIN body :
          IF body[f] = None THEN f = "bio" ELSE FieldOk(f, Val(body[f]))

\* user.dict() of a validated UserCreate
UserCreate(body) ==
    [f \in PayloadFields |->
        IF f \in DOMAIN body THEN body[f] ELSE UserCreateDefaults[f]]

\* UserUpdate: every field Optional with default None
UserUpdateValid(body) ==
    \A f \in DOMAIN body : body[f] = None \/ FieldOk(f, Val(body[f]))

\* a plausible slip: dict(exclude_none=True) for dict(exclude_unset=True)
UserUpdateExcludeNone(body) ==
    [f \in {g \in DOMAIN body : body[g] # None} |-> body[f]]

\* changes.dict(exclude_unset=True): the fields the request supplied
UserUpdate(body) == body

\* UserResponse (response_model): name, email, age, addresses must not be None
UserResponse(u) ==
    /\ u.name # None
    /\ u.email # None
    /\ u.age # None
    /\ u.addresses # None

(***************************************************************************)
(* Helpers of the store.                                                   *)
(***************************************************************************)
\* _find_user_index: the first index holding user_id, 0 for Python's -1
FindUserIndex(users, user_id) ==
    IF \E i \in DOMAIN users : users[i].id = user_id
    THEN CHOOSE i \in DOMAIN users :
            /\ users[i].id = user_id
            /\ \A j \in 1..(i - 1) : users[j].id # user_id
    ELSE 0

\* a plausible slip: the -1 of a missing id used as an index, which in
\* Python is the last element of the list
_find_user_index_unchecked(user_id) ==
    IF FindUserIndex(USERS, user_id) = 0 THEN Len(USERS)
    ELSE FindUserIndex(USERS, user_id)

_find_user_index(user_id) == FindUserIndex(USERS, user_id)

\* list.pop(idx)
Pop(s, idx) == [i \in 1..(Len(s) - 1) |-> IF i < idx THEN s[i] ELSE s[i + 1]]

\* a plausible slip: values that are None skipped by the update
DictUpdateSkipNone(u, data) ==
    [f \in DOMAIN u |->
        IF f \in DOMAIN data /\ data[f] # None THEN data[f] ELSE u[f]]

\* dict.update(data)
DictUpdate(u, data) ==
    [f \in DOMAIN u |-> IF f \in DOMAIN data THEN data[f] ELSE u[f]]

\* a plausible slip: the emails compared without .lower()
RECURSIVE EmailScanCaseSensitive(_, _, _, _)
EmailScanCaseSensitive(users, i, email, exclude) ==
    IF i > Len(users) THEN "free"
    ELSE IF users[i].email = None \/ email = None THEN "raise"
    ELSE IF users[i].email = email /\ users[i].id # exclude THEN "dup"
    ELSE EmailScanCaseSensitive(users, i + 1, email, exclude)

\* any(u["email"].lower() == email.lower() [and u["id"] != user_id] for u in
\* USERS), scanned in order: "dup" when a user matches, "raise" when .lower()
\* is applied to None before a match, "free" otherwise.  exclude = 0 is the
\* scan of create_user, which excludes nobody.
RECURSIVE EmailScan(_, _, _, _)
EmailScan(users, i, email, exclude) ==
    IF i > Len(users) THEN "free"
    ELSE IF users[i].email = None \/ email = None THEN "raise"
    ELSE IF /\ lower(Val(users[i].email)) = lower(Val(email))
            /\ users[i].id # exclude
         THEN "dup"
    ELSE EmailScan(users, i + 1, email, exclude)

(***************************************************************************)
(* Responses.                                                              *)
(***************************************************************************)
Response(op, id, status, users) ==
    [op |-> op, id |-> id, status |-> status, users |-> users,
     total |-> 0, page |-> 0, limit |-> 0]

\* a handler returning one user through response_model=UserResponse
UserReply(op, id, status, u) ==
    IF UserResponse(u)
    THEN Response(op, id, status, <<u>>)
    ELSE Response(op, id, 500, <<>>)

(***************************************************************************)
(* Student Service: a request and its storage session.                     *)
(***************************************************************************)
Requests == 1..MaxReq

\* pc: idle -> get_db (dependency to be solved) -> handler (db yielded)
\*     -> finally (handler returned or raised) -> done (response sent)
\* session: none | open | closed;  acquired: calls of SessionLocal()
IdleRequest ==
    [pc |-> "idle", op |-> "none", status |-> 0, session |-> "none",
     acquired |-> 0]

(***************************************************************************)
(* Init: the module-level state of both applications after import.         *)
(***************************************************************************)
Init ==
    /\ USERS = <<>>
    /\ USER_ID = 1
    /\ now = 0
    /\ tasks = {}
    /\ resp = Response("none", 0, 0, <<>>)
    /\ issued = <<>>
    /\ created = {}
    /\ students = <<>>
    /\ student_id = 1
    /\ reqs = [r \in Requests |-> IdleRequest]

(***************************************************************************)
(* POST /users                                                             *)
(***************************************************************************)
\* a plausible slip: the id taken from the length of the list
NewUserLenId(user, utcnow) ==
    [id |-> Len(USERS) + 1, name |-> user.name, email |-> user.email,
     age |-> user.age, bio |-> user.bio, addresses |-> user.addresses,
     created_at |-> utcnow]

\* new_user = {"id": USER_ID, **user.dict(), "created_at": datetime.utcnow()}
NewUser(user, utcnow) ==
    [id |-> USER_ID, name |-> user.name, email |-> user.email,
     age |-> user.age, bio |-> user.bio, addresses |-> user.addresses,
     created_at |-> utcnow]

\* a plausible slip: the task scheduled before the duplicate check
create_user_schedules_first(body, utcnow) ==
    /\ UNCHANGED svars
    /\ IF ~UserCreateValid(body)
       THEN /\ resp' = Response("create", 0, 422, <<>>)
            /\ UNCHANGED <<USERS, USER_ID, now, tasks, issued, created>>
       ELSE LET user == UserCreate(body)
                scan == EmailScan(USERS, 1, user.email, 0)
                new_user == NewUser(user, utcnow)
            IN  /\ tasks' = tasks \cup {new_user.id}
                /\ IF scan # "free"
                   THEN /\ resp' = Response("create", 0,
                                      IF scan = "dup" THEN 409 ELSE 500, <<>>)
                        /\ UNCHANGED <<USERS, USER_ID, now, issued, created>>
                   ELSE /\ USERS' = Append(USERS, new_user)
                        /\ USER_ID' = USER_ID + 1
                        /\ resp' = UserReply("create", new_user.id, 201, new_user)
                        /\ issued' = Append(issued, new_user.id)
                        /\ created' = created \cup
                              {[id |-> new_user.id, input |-> user,
                                created_at |-> utcnow]}
                        /\ now' = utcnow

create_user(body, utcnow) ==
    /\ UNCHANGED svars
    /\ IF ~UserCreateValid(body)
       THEN /\ resp' = Response("create", 0, 422, <<>>)
            /\ UNCHANGED <<USERS, USER_ID, now, tasks, issued, created>>
       ELSE LET user == UserCreate(body)
                scan == EmailScan(USERS, 1, user.email, 0)
                new_user == NewUser(user, utcnow)
            IN  IF scan # "free"
                THEN /\ resp' = Response("create", 0,
                                         IF scan = "dup" THEN 409 ELSE 500, <<>>)
                     /\ UNCHANGED <<USERS, USER_ID, now, tasks, issued, created>>
                ELSE /\ USERS' = Append(USERS, new_user)
                     /\ USER_ID' = USER_ID + 1
                     /\ tasks' = tasks \cup {new_user.id}
                     /\ resp' = UserReply("create", new_user.id, 201, new_user)
                     /\ issued' = Append(issued, new_user.id)
                     /\ created' = created \cup
                           {[id |-> new_user.id, input |-> user,
                             created_at |-> utcnow]}
                     /\ now' = utcnow

(***************************************************************************)
(* GET /users                                                              *)
(***************************************************************************)
\* code points of the characters used, in increasing order
CharOrder == <<"@">> \o UpperChars \o LowerChars

CharCode(c) == CHOOSE i \in DOMAIN CharOrder : CharOrder[i] = c

\* Python's  a < b  for strings
RECURSIVE StrLess(_, _)
StrLess(a, b) ==
    IF b = <<>> THEN FALSE
    ELSE IF a = <<>> THEN TRUE
    ELSE IF CharCode(Head(a)) # CharCode(Head(b))
         THEN CharCode(Head(a)) < CharCode(Head(b))
    ELSE StrLess(Tail(a), Tail(b))

\* Python's  a < b  for two keys u[sort_by] that are not None
KeyLess(sort_by, a, b) == IF sort_by = "name" THEN StrLess(a, b) ELSE a < b

\* u[sort_by]: None or a value for name and age, always a value for id
SortKey(u, sort_by) == IF sort_by = "id" THEN Some(u.id) ELSE u[sort_by]

\* list.sort(key=..., reverse=...) is stable in both directions: an element
\* goes behind every element that does not have to follow it
RECURSIVE SortInsert(_, _, _, _)
SortInsert(sorted, u, sort_by, reverse) ==
    IF sorted = <<>> THEN <<u>>
    ELSE LET last == sorted[Len(sorted)]
             ku == Val(SortKey(u, sort_by))
             kl == Val(SortKey(last, sort_by))
             before == IF reverse THEN KeyLess(sort_by, kl, ku)
                       ELSE KeyLess(sort_by, ku, kl)
         IN  IF before
             THEN Append(SortInsert(SubSeq(sorted, 1, Len(sorted) - 1),
                                    u, sort_by, reverse), last)
             ELSE Append(sorted, u)

RECURSIVE SortBy(_, _, _)
SortBy(items, sort_by, reverse) ==
    IF items = <<>> THEN <<>>
    ELSE SortInsert(SortBy(SubSeq(items, 1, Len(items) - 1), sort_by, reverse),
                    items[Len(items)], sort_by, reverse)

\* comparing None with anything raises TypeError as soon as two items are compared
SortRaises(items, sort_by) ==
    /\ Len(items) >= 2
    /\ \E i \in DOMAIN items : SortKey(items[i], sort_by) = None

\* q_lower in u["name"].lower() or q_lower in u["email"].lower()
QMatch(u, q_lower) ==
    \/ StrIn(q_lower, lower(Val(u.name)))
    \/ StrIn(q_lower, lower(Val(u.email)))

\* .lower() of None raises AttributeError
QRaises(u, q_lower) ==
    \/ u.name = None
    \/ ~StrIn(q_lower, lower(Val(u.name))) /\ u.email = None

\* a plausible slip: the end of the slice taken as inclusive
SliceInclusive(items, start, end) ==
    LET lo == IF start < Len(items) THEN start ELSE Len(items)
        hi == IF end + 1 < Len(items) THEN end + 1 ELSE Len(items)
    IN  [i \in 1..(hi - lo) |-> items[lo + i]]

\* Python's items[start:end] for 0 <= start <= end
Slice(items, start, end) ==
    LET lo == IF start < Len(items) THEN start ELSE Len(items)
        hi == IF end < Len(items) THEN end ELSE Len(items)
    IN  [i \in 1..(hi - lo) |-> items[lo + i]]

\* Query(...) constraints of list_users
ListQueryValid(qr) ==
    /\ qr.page >= MinPage
    /\ qr.limit >= MinLimit /\ qr.limit <= MaxLimit
    /\ qr.q = None \/ Len(Val(qr.q)) >= MinQLen
    /\ qr.min_age = None \/ Val(qr.min_age) >= 0
    /\ qr.max_age = None \/ Val(qr.max_age) >= 0
    /\ qr.sort_by \in {"id", "name", "age"}
    /\ qr.order \in {"asc", "desc"}

ListError(status) ==
    [op |-> "list", id |-> 0, status |-> status, users |-> <<>>,
     total |-> 0, page |-> 0, limit |-> 0]

\* the body of list_users on the store `users`
ListReply(users, qr) ==
    IF ~ListQueryValid(qr) THEN ListError(422)
    ELSE
    LET items0 == users
        useq == qr.q # None /\ Val(qr.q) # <<>>
        q_lower == lower(Val(qr.q))
        raise1 == useq /\ \E i \in DOMAIN items0 : QRaises(items0[i], q_lower)
        items1 == IF useq THEN SelectSeq(items0, LAMBDA u : QMatch(u, q_lower))
                  ELSE items0
        raise2 == qr.min_age # None /\ \E i \in DOMAIN items1 : items1[i].age = None
        items2 == IF qr.min_age # None
                  THEN SelectSeq(items1, LAMBDA u : Val(u.age) >= Val(qr.min_age))
                  ELSE items1
        raise3 == qr.max_age # None /\ \E i \in DOMAIN items2 : items2[i].age = None
        items3 == IF qr.max_age # None
                  THEN SelectSeq(items2, LAMBDA u : Val(u.age) <= Val(qr.max_age))
                  ELSE items2
        reverse == qr.order = "desc"
    IN  IF raise1 \/ raise2 \/ raise3 \/ SortRaises(items3, qr.sort_by)
        THEN ListError(500)
        ELSE LET items == SortBy(items3, qr.sort_by, reverse)
                 total == Len(items)
                 start == (qr.page - 1) * qr.limit
                 end == start + qr.limit
                 page_items == Slice(items, start, end)
             IN  IF \E i \in DOMAIN page_items : ~UserResponse(page_items[i])
                 THEN ListError(500)
                 ELSE [op |-> "list", id |-> 0, status |-> 200,
                       users |-> page_items, total |-> total,
                       page |-> qr.page, limit |-> qr.limit]

list_users(qr) ==
    /\ UNCHANGED svars
    /\ resp' = ListReply(USERS, qr)
    /\ UNCHANGED <<USERS, USER_ID, now, tasks, issued, created>>

(***************************************************************************)
(* GET /users/{user_id}                                                    *)
(***************************************************************************)
GetReply(user_id, include_addresses) ==
    IF user_id < MinUserId THEN Response("get", user_id, 422, <<>>)
    ELSE LET idx == _find_user_index(user_id)
         IN  IF idx = 0 THEN Response("get", user_id, 404, <<>>)
             ELSE LET user == IF include_addresses THEN USERS[idx]
                              ELSE [USERS[idx] EXCEPT !.addresses = Some(<<>>)]
                  IN  UserReply("get", user_id, 200, user)

\* a plausible slip: user = USERS[idx] without .copy(), so that clearing
\* the addresses of the reply clears those of the stored user
get_user_no_copy(user_id, include_addresses) ==
    /\ UNCHANGED svars
    /\ resp' = GetReply(user_id, include_addresses)
    /\ USERS' = IF resp'.status = 200 /\ ~include_addresses
                THEN [USERS EXCEPT ![_find_user_index(user_id)].addresses =
                                        Some(<<>>)]
                ELSE USERS
    /\ UNCHANGED <<USER_ID, now, tasks, issued, created>>

\* user = USERS[idx].copy(): the reply is built on a copy
get_user(user_id, include_addresses) ==
    /\ UNCHANGED svars
    /\ resp' = GetReply(user_id, include_addresses)
    /\ UNCHANGED <<USERS, USER_ID, now, tasks, issued, created>>

(***************************************************************************)
(* PUT /users/{user_id}                                                    *)
(***************************************************************************)
\* the creation records of the ids no write request has been addressed to
Untouched(user_id) == {c \in created : c.id # user_id}

replace_user(user_id, body) ==
    /\ UNCHANGED svars
    /\ created' = Untouched(user_id)
    /\ UNCHANGED <<USER_ID, now, tasks, issued>>
    /\ IF ~UserCreateValid(body)
       THEN /\ resp' = Response("replace", user_id, 422, <<>>)
            /\ UNCHANGED USERS
       ELSE LET payload == UserCreate(body)
                idx == _find_user_index(user_id)
            IN  IF idx = 0
                THEN /\ resp' = Response("replace", user_id, 404, <<>>)
                     /\ UNCHANGED USERS
                ELSE LET scan == EmailScan(USERS, 1, payload.email, user_id)
                     IN  IF scan # "free"
                         THEN /\ resp' = Response("replace", user_id,
                                            IF scan = "dup" THEN 409 ELSE 500, <<>>)
                              /\ UNCHANGED USERS
                         ELSE /\ USERS' = [USERS EXCEPT
                                             ![idx] = DictUpdate(@, payload)]
                              /\ resp' = UserReply("replace", user_id, 200,
                                                   USERS'[idx])

(***************************************************************************)
(* PATCH /users/{user_id}                                                  *)
(***************************************************************************)
patch_user(user_id, body) ==
    /\ UNCHANGED svars
    /\ created' = Untouched(user_id)
    /\ UNCHANGED <<USER_ID, now, tasks, issued>>
    /\ IF ~UserUpdateValid(body)
       THEN /\ resp' = Response("patch", user_id, 422, <<>>)
            /\ UNCHANGED USERS
       ELSE LET update_data == UserUpdate(body)
                idx == _find_user_index(user_id)
            IN  IF idx = 0
                THEN /\ resp' = Response("patch", user_id, 404, <<>>)
                     /\ UNCHANGED USERS
                ELSE LET scan == IF "email" \in DOMAIN update_data
                                 THEN EmailScan(USERS, 1, update_data.email, user_id)
                                 ELSE "free"
                     IN  IF scan # "free"
                         THEN /\ resp' = Response("patch", user_id,
                                            IF scan = "dup" THEN 409 ELSE 500, <<>>)
                              /\ UNCHANGED USERS
                         ELSE /\ USERS' = [USERS EXCEPT
                                             ![idx] = DictUpdate(@, update_data)]
                              /\ resp' = UserReply("patch", user_id, 200,
                                                   USERS'[idx])

(***************************************************************************)
(* DELETE /users/{user_id}                                                 *)
(***************************************************************************)
delete_user(user_id) ==
    /\ UNCHANGED svars
    /\ created' = Untouched(user_id)
    /\ UNCHANGED <<USER_ID, now, tasks, issued>>
    /\ LET idx == _find_user_index(user_id)
       IN  IF idx = 0
           THEN /\ resp' = Response("delete", user_id, 404, <<>>)
                /\ UNCHANGED USERS
           ELSE /\ USERS' = Pop(USERS, idx)
                /\ resp' = Response("delete", user_id, 200, <<>>)

(***************************************************************************)
(* The background task of create_user.                                      *)
(***************************************************************************)
\* send_welcome_email(email) of the Create that returned id `task`: sleeps,
\* never reads its argument, touches nothing, and is done
send_welcome_email(task) ==
    /\ UNCHANGED svars
    /\ task \in tasks
    /\ tasks' = tasks \ {task}
    /\ UNCHANGED <<USERS, USER_ID, now, resp, issued, created>>

(***************************************************************************)
(* Requests of the model.                                                  *)
(***************************************************************************)
sAnn == <<"A", "n", "n">>
sBob == <<"B", "o", "b">>
sBo == <<"B", "o">>
eAnn == <<"a", "n", "@", "x">>
eANN == <<"A", "N", "@", "x">>
eBob == <<"b", "@", "x">>
sHi == <<"h", "i">>
aRome == [city |-> <<"R", "o", "m", "e">>, country |-> <<"I", "T">>]

\* request bodies with the required fields only: two emails that differ in
\* the case of letters, a third email, and a name that is too short
TaskBodies ==
    { [name |-> Some(sAnn), email |-> Some(eAnn), age |-> Some(30)],
      [name |-> Some(sBob), email |-> Some(eANN), age |-> Some(13)],
      [name |-> Some(sBob), email |-> Some(eBob), age |-> Some(30)],
      [name |-> Some(sBo), email |-> Some(eBob), age |-> Some(30)] }

TaskUpdates ==
    { <<>>, [email |-> Some(eBob)], [email |-> Some(eANN)],
      [name |-> Some(sBob)] }

\* request bodies of the store-level specification: name, email and age vary
CreateBodies ==
    { [name |-> Some(sAnn), email |-> Some(eAnn), age |-> Some(30)],
      [name |-> Some(sBob), email |-> Some(eANN), age |-> Some(13)],
      [name |-> Some(sBob), email |-> Some(eBob), age |-> Some(30),
       bio |-> None, addresses |-> Some(<<>>)],
      [name |-> Some(sBo), email |-> Some(eBob), age |-> Some(30)],
      [name |-> Some(sAnn), email |-> Some(eBob), age |-> Some(12)],
      [name |-> Some(sAnn), email |-> Some(eBob), age |-> Some(121)],
      [name |-> Some(sAnn), email |-> Some(eBob)] }

UpdateBodies ==
    { <<>>,
      [name |-> Some(sBob)],
      [email |-> Some(eANN)],
      [email |-> Some(eBob)],
      [age |-> Some(13)],
      [name |-> None],
      [email |-> None],
      [age |-> None],
      [addresses |-> None],
      [name |-> Some(sBo)],
      [age |-> Some(121)] }

UserIds == 1..(MaxId + 1)

\* the store-level specification: the four write requests.  Every Create
\* reads the same clock value here: no write handler reads created_at
Next ==
    \/ \E body \in CreateBodies :
          USER_ID <= MaxId /\ create_user(body, now)
    \/ \E id \in UserIds, body \in CreateBodies : replace_user(id, body)
    \/ \E id \in UserIds, body \in UpdateBodies : patch_user(id, body)
    \/ \E id \in UserIds : delete_user(id)

Spec == Init /\ [][Next]_vars

(***************************************************************************)
(* The field-level specification: every field of a body varies, no field   *)
(* that UserResponse requires is cleared.                                  *)
(***************************************************************************)
FieldBodies ==
    { [name |-> Some(sAnn), email |-> Some(eAnn), age |-> Some(30)],
      [name |-> Some(sBob), email |-> Some(eANN), age |-> Some(13),
       bio |-> Some(sHi), addresses |-> Some(<<aRome>>)],
      [name |-> Some(sBob), email |-> Some(eBob), age |-> Some(30),
       bio |-> None, addresses |-> Some(<<aRome>>)],
      [name |-> Some(sAnn), email |-> Some(eBob), age |-> Some(30),
       addresses |-> None] }

FieldUpdates ==
    { <<>>,
      [name |-> Some(sBob)],
      [email |-> Some(eANN)],
      [email |-> Some(eBob)],
      [age |-> Some(13), bio |-> Some(sHi)],
      [bio |-> None],
      [addresses |-> Some(<<aRome>>)],
      [addresses |-> Some(<<>>)],
      [name |-> Some(sAnn), age |-> Some(30)],
      [name |-> Some(sBo), age |-> Some(30)] }

\* every successful Create reads a later clock value than the one before, so
\* the users differ in created_at
NextFields ==
    \/ \E body \in FieldBodies :
          USER_ID <= MaxId /\ create_user(body, now + 1)
    \/ \E id \in 1..MaxId, body \in FieldBodies : replace_user(id, body)
    \/ \E id \in 1..MaxId, body \in FieldUpdates : patch_user(id, body)
    \/ \E id \in 1..MaxId : delete_user(id)

SpecFields == Init /\ [][NextFields]_vars

(***************************************************************************)
(* The read-back specification: Creates at any clock reading, Gets, and    *)
(* writes that address one user among the others.                          *)
(***************************************************************************)
RoundUpdates ==
    { <<>>, [name |-> Some(sBob), bio |-> None], [addresses |-> Some(<<>>)] }

NextRound ==
    \/ \E body \in FieldBodies, utcnow \in now..MaxClock :
          USER_ID <= MaxId /\ create_user(body, utcnow)
    \/ \E id \in 0..MaxId, inc \in BOOLEAN : get_user(id, inc)
    \/ \E id \in UserIds, body \in FieldBodies : replace_user(id, body)
    \/ \E id \in UserIds, body \in RoundUpdates : patch_user(id, body)
    \/ \E id \in UserIds : delete_user(id)

SpecRound == Init /\ [][NextRound]_vars

(***************************************************************************)
(* The background specification: write requests interleaved with the runs *)
(* of the welcome tasks.  Every Create reads the same clock value.         *)
(***************************************************************************)
NextTasks ==
    \/ \E body \in TaskBodies :
          USER_ID <= MaxId /\ create_user(body, now)
    \/ \E id \in UserIds, body \in TaskBodies : replace_user(id, body)
    \/ \E id \in UserIds, body \in TaskUpdates : patch_user(id, body)
    \/ \E id \in UserIds : delete_user(id)
    \/ \E task \in tasks : send_welcome_email(task)

SpecTasks == Init /\ [][NextTasks]_vars

(***************************************************************************)
(* The listing specification: Creates, Deletes and List.                   *)
(***************************************************************************)
eCat == <<"c", "@", "x">>
sAN == <<"a", "N">>

ListBodies ==
    { [name |-> Some(sAnn), email |-> Some(eBob), age |-> Some(30)],
      [name |-> Some(sBob), email |-> Some(eANN), age |-> Some(13)],
      [name |-> Some(sBob), email |-> Some(eCat), age |-> Some(30)],
      [name |-> Some(sAnn), email |-> Some(eAnn), age |-> Some(13)] }

\* every page, limit, sort key and order, without filters
PagingQueries ==
    [page : 1..3, limit : {1, 2, MaxLimit}, q : {None}, min_age : {None},
     max_age : {None}, sort_by : {"id", "name", "age"},
     order : {"asc", "desc"}]

\* every combination of the filters, on the first page and beyond the last
FilterQueries ==
    [page : {1, 3}, limit : {1, 2}, q : {None, Some(sAN)},
     min_age : {None, Some(20)}, max_age : {None, Some(20)},
     sort_by : {"name", "age"}, order : {"asc", "desc"}]

\* page, limit or q outside the ranges of the Query declarations
RefusedQueries ==
    [page : {0, 1}, limit : {0, 1, MaxLimit + 1}, q : {None, Some(<<"a">>)},
     min_age : {None}, max_age : {None}, sort_by : {"id"}, order : {"asc"}]

ListQueries == PagingQueries \cup FilterQueries \cup RefusedQueries

MaxListId == MaxId + 1

\* every Create reads the same clock value here: list_users neither filters
\* nor sorts by created_at
NextList ==
    \/ \E body \in ListBodies :
          USER_ID <= MaxListId /\ create_user(body, now)
    \/ \E id \in 1..MaxListId : delete_user(id)
    \/ \E qr \in ListQueries : list_users(qr)

SpecList == Init /\ [][NextList]_vars

(***************************************************************************)
(* Student Service (src/student/main.py).  Handlers are plain functions,   *)
(* run on worker threads, so requests overlap; each handler body is one    *)
(* transaction on its session.                                             *)
(***************************************************************************)
StudentOps == {"create_student", "get_all_students", "get_student",
               "update_student", "delete_student"}

\* a request arrives and is routed to its handler
Receive(r, op) ==
    /\ reqs[r].pc = "idle"
    /\ reqs' = [reqs EXCEPT ![r] = [IdleRequest EXCEPT !.pc = "get_db",
                                                          !.op = op]]
    /\ UNCHANGED <<students, student_id>>
    /\ UNCHANGED uvars

\* get_db up to its yield: db = SessionLocal()
get_db_enter(r) ==
    /\ reqs[r].pc = "get_db"
    /\ reqs' = [reqs EXCEPT ![r].session = "open",
                            ![r].acquired = @ + 1,
                            ![r].pc = "handler"]
    /\ UNCHANGED <<students, student_id>>
    /\ UNCHANGED uvars

\* db.query(models.Student).filter(models.Student.id == student_id).first()
StudentIndex(student_id_) ==
    IF \E i \in DOMAIN students : students[i].id = student_id_
    THEN CHOOSE i \in DOMAIN students : students[i].id = student_id_
    ELSE 0

\* the id the storage engine gives a new row
NewStudentId == student_id

\* the handlers: student is the request body, student_id_ the path parameter
create_student(r, student) ==
    /\ reqs[r].pc = "handler" /\ reqs[r].op = "create_student"
    /\ student_id <= MaxStudentId
    /\ students' = Append(students, [id |-> NewStudentId, data |-> student])
    /\ student_id' = student_id + 1
    /\ reqs' = [reqs EXCEPT ![r].pc = "finally", ![r].status = 201]
    /\ UNCHANGED uvars

get_all_students(r) ==
    /\ reqs[r].pc = "handler" /\ reqs[r].op = "get_all_students"
    /\ reqs' = [reqs EXCEPT ![r].pc = "finally", ![r].status = 200]
    /\ UNCHANGED <<students, student_id>>
    /\ UNCHANGED uvars

get_student(r, student_id_) ==
    /\ reqs[r].pc = "handler" /\ reqs[r].op = "get_student"
    /\ reqs' = [reqs EXCEPT ![r].pc = "finally",
                            ![r].status = IF StudentIndex(student_id_) = 0
                                          THEN 404 ELSE 200]
    /\ UNCHANGED <<students, student_id>>
    /\ UNCHANGED uvars

update_student(r, student_id_, student) ==
    /\ reqs[r].pc = "handler" /\ reqs[r].op = "update_student"
    /\ LET idx == StudentIndex(student_id_)
       IN  IF idx = 0
           THEN /\ reqs' = [reqs EXCEPT ![r].pc = "finally", ![r].status = 404]
                /\ UNCHANGED students
           ELSE /\ students' = [students EXCEPT ![idx].data = student]
                /\ reqs' = [reqs EXCEPT ![r].pc = "finally", ![r].status = 202]
    /\ UNCHANGED student_id
    /\ UNCHANGED uvars

delete_student(r, student_id_) ==
    /\ reqs[r].pc = "handler" /\ reqs[r].op = "delete_student"
    /\ LET idx == StudentIndex(student_id_)
       IN  IF idx = 0
           THEN /\ reqs' = [reqs EXCEPT ![r].pc = "finally", ![r].status = 404]
                /\ UNCHANGED students
           ELSE /\ students' = Pop(students, idx)
                /\ reqs' = [reqs EXCEPT ![r].pc = "finally", ![r].status = 204]
    /\ UNCHANGED student_id
    /\ UNCHANGED uvars

\* a plausible slip: db.close() after the yield without try/finally, which
\* a handler that raises skips
get_db_exit_no_finally(r) ==
    /\ reqs[r].pc = "finally"
    /\ reqs' = [reqs EXCEPT ![r].session = IF reqs[r].status = 404 THEN "open"
                                           ELSE "closed",
                            ![r].pc = "done"]
    /\ UNCHANGED <<students, student_id>>
    /\ UNCHANGED uvars

\* get_db after its yield: the finally clause runs db.close() whether the
\* handler returned or raised
get_db_exit(r) ==
    /\ reqs[r].pc = "finally"
    /\ reqs' = [reqs EXCEPT ![r].session = "closed", ![r].pc = "done"]
    /\ UNCHANGED <<students, student_id>>
    /\ UNCHANGED uvars

\* the response has been sent; the worker takes the next request
Finish(r) ==
    /\ reqs[r].pc = "done"
    /\ reqs' = [reqs EXCEPT ![r] = IdleRequest]
    /\ UNCHANGED <<students, student_id>>
    /\ UNCHANGED uvars

StudentData == {"s1", "s2"}

StudentIds == 1..MaxStudentId

NextStudent ==
    \/ \E r \in Requests, op \in StudentOps : Receive(r, op)
    \/ \E r \in Requests : get_db_enter(r)
    \/ \E r \in Requests, student \in StudentData : create_student(r, student)
    \/ \E r \in Requests : get_all_students(r)
    \/ \E r \in Requests, id \in StudentIds : get_student(r, id)
    \/ \E r \in Requests, id \in StudentIds, student \in StudentData :
          update_student(r, id, student)
    \/ \E r \in Requests, id \in StudentIds : delete_student(r, id)
    \/ \E r \in Requests : get_db_exit(r)
    \/ \E r \in Requests : Finish(r)

SpecStudent == Init /\ [][NextStudent]_vars

(***************************************************************************)
(* Properties.                                                             *)
(***************************************************************************)
\* user_id is the id of a stored user
Live(user_id) == \E i \in DOMAIN USERS : USERS[i].id = user_id

\* the position of the stored user user_id
IndexOf(user_id) == CHOOSE i \in DOMAIN USERS : USERS[i].id = user_id

\* a stored user other than `exclude` holds `email` up to the case of letters
EmailTaken(email, exclude) ==
    \E i \in DOMAIN USERS :
        /\ USERS[i].id # exclude
        /\ USERS[i].email # None
        /\ lower(Val(USERS[i].email)) = lower(email)

StoreUnchanged == USERS' = USERS /\ USER_ID' = USER_ID

\* C1: in every reachable state of the User Service no two stored users have
\* emails that are equal when compared case-insensitively (and every stored
\* email is a string, so that the comparison is defined).
C1_UniqueEmails ==
    /\ \A i \in DOMAIN USERS : USERS[i].email # None
    /\ \A i, j \in DOMAIN USERS :
          i # j => lower(Val(USERS[i].email)) # lower(Val(USERS[j].email))

\* C1 witness: two users are stored and a Replace or Patch that asked for the
\* email of the other user has just been refused.
C1_Witness ==
    /\ Len(USERS) = 2
    /\ resp.op \in {"replace", "patch"}
    /\ resp.status = 409

\* C2: the first successful Create returns id 1, every successful Create
\* returns an id greater than every id returned before (so no id is issued
\* twice, deleted or not), every stored id was issued, and no two stored
\* users share an id.
C2_IdsIncrease ==
    /\ issued # <<>> => issued[1] = 1
    /\ \A k, l \in DOMAIN issued : k < l => issued[k] < issued[l]
    /\ \A i \in DOMAIN USERS : \E k \in DOMAIN issued : issued[k] = USERS[i].id
    /\ \A i, j \in DOMAIN USERS : i # j => USERS[i].id # USERS[j].id

\* C2 witness: user 1 was created and deleted, and a later Create has just
\* returned id 2, the only stored user.
C2_Witness ==
    /\ issued = <<1, 2>>
    /\ Len(USERS) = 1
    /\ USERS[1].id = 2
    /\ resp.op = "create" /\ resp.status = 201 /\ resp.users[1].id = 2

\* C3: a Create whose email is held by a stored user, a Replace or Patch
\* whose email is held by another stored user, and a Replace, Patch or Delete
\* of an id that is not stored, are refused (409, 409, 404) and leave the
\* user list and the id counter as they were; so does every step that ends
\* in a 404 or 409 response.
C3_FailedWriteStep ==
    /\ resp'.op = "create" =>
          \A body \in TaskBodies :
             ( /\ UserCreateValid(body)
               /\ EmailTaken(Val(body.email), 0)
               /\ create_user(body, now) )
             => resp'.status = 409 /\ StoreUnchanged
    /\ resp'.op = "replace" =>
          \A body \in TaskBodies :
             ( /\ UserCreateValid(body)
               /\ ~Live(resp'.id) \/ EmailTaken(Val(body.email), resp'.id)
               /\ replace_user(resp'.id, body) )
             => /\ resp'.status = IF Live(resp'.id) THEN 409 ELSE 404
                /\ StoreUnchanged
    /\ resp'.op = "patch" =>
          \A body \in TaskUpdates :
             ( /\ UserUpdateValid(body)
               /\ \/ ~Live(resp'.id)
                  \/ /\ "email" \in DOMAIN body
                     /\ body.email # None
                     /\ EmailTaken(Val(body.email), resp'.id)
               /\ patch_user(resp'.id, body) )
             => /\ resp'.status = IF Live(resp'.id) THEN 409 ELSE 404
                /\ StoreUnchanged
    /\ resp'.op = "delete" =>
          ( (~Live(resp'.id) /\ delete_user(resp'.id))
            => resp'.status = 404 /\ StoreUnchanged )
    /\ resp'.status \in {404, 409} => StoreUnchanged

C8_StoredFieldsValid ==
    \A i \in DOMAIN USERS :
        /\ USERS[i].name # None /\ NameOk(Val(USERS[i].name))
        /\ USERS[i].email # None
        /\ USERS[i].age # None /\ AgeOk(Val(USERS[i].age))

\* C9: the welcome task is scheduled only by a Create that answers 201 and
\* appends its user; a Create that is refused schedules nothing; when the
\* 201 response exists and the user is stored the task is still pending;
\* and a run of the task leaves the user list and the id counter alone.
C9_TaskStep ==
    /\ ~(tasks' \subseteq tasks) =>
          /\ \E body \in TaskBodies : create_user(body, now)
          /\ resp'.op = "create" /\ resp'.status = 201
          /\ USERS' = Append(USERS, resp'.users[1])
          /\ tasks' = tasks \cup {resp'.users[1].id}
    /\ resp'.op = "create" =>
          \A body \in TaskBodies :
             create_user(body, now) =>
                /\ resp'.status # 201 => tasks' = tasks
                /\ resp'.status = 201 =>
                      /\ resp'.users[1].id \in tasks'
                      /\ \E i \in DOMAIN USERS' :
                            USERS'[i].id = resp'.users[1].id
    /\ \A task \in tasks : send_welcome_email(task) => StoreUnchanged

C9_WelcomeTask == [][C9_TaskStep]_vars

\* C9 witness: the task of user 1 has run while the task of user 2, whose
\* 201 response is the last response, is still pending.
C9_Witness ==
    /\ issued = <<1, 2>>
    /\ tasks = {2}
    /\ resp.op = "create" /\ resp.status = 201 /\ resp.users[1].id = 2

\* the stored user u with the fields of `data` replaced by the values of
\* `data`
Overwritten(u, data) ==
    [f \in DOMAIN u |-> IF f \in DOMAIN data THEN data[f] ELSE u[f]]

\* the stored users other than the one at position idx, each at its
\* position, are the same after the step, and so is the id counter
OthersUnchanged(idx) ==
    /\ Len(USERS') = Len(USERS)
    /\ \A k \in DOMAIN USERS : k # idx => USERS'[k] = USERS[k]
    /\ USER_ID' = USER_ID

\* C5: a Replace that answers 200 leaves the user with the name, email and
\* age of the payload, with its bio or None, with its addresses or the empty
\* list, and with the id and created_at it had, at the position it had; the
\* other users and the id counter are unchanged.
C5_ReplaceStep ==
    resp'.op = "replace" /\ resp'.status = 200 =>
       \A body \in FieldBodies :
          replace_user(resp'.id, body) =>
             LET idx == IndexOf(resp'.id)
                 after == USERS'[idx]
                 before == USERS[idx]
             IN  /\ after.name = body.name
                 /\ after.email = body.email
                 /\ after.age = body.age
                 /\ after.bio = IF "bio" \in DOMAIN body THEN body.bio ELSE None
                 /\ after.addresses = IF "addresses" \in DOMAIN body
                                      THEN body.addresses ELSE Some(<<>>)
                 /\ after.id = resp'.id
                 /\ after.created_at = before.created_at
                 /\ OthersUnchanged(idx)
                 /\ resp'.users = <<after>>

C5_ReplaceOverwrites == [][C5_ReplaceStep]_vars

\* C5 witness: the first of two users, created at an earlier clock reading
\* with a bio, has just been replaced by a payload without bio.
C5_Witness ==
    /\ Len(USERS) = 2
    /\ resp.op = "replace" /\ resp.status = 200 /\ resp.id = USERS[1].id
    /\ USERS[1].bio = None
    /\ USERS[1].created_at < now
    /\ \E c \in created : c.id = USERS[2].id /\ c.input.bio # None

\* C6: a Patch that answers 200 gives every supplied field the supplied
\* value (None included) and leaves the other fields of the user, id and
\* created_at among them, the other users and the id counter as they were;
\* with an empty change set the user list is unchanged and the response is
\* the stored user.
C6_PatchStep ==
    resp'.op = "patch" /\ resp'.status = 200 =>
       \A body \in FieldUpdates :
          patch_user(resp'.id, body) =>
             LET idx == IndexOf(resp'.id)
             IN  /\ USERS'[idx] = Overwritten(USERS[idx], body)
                 /\ OthersUnchanged(idx)
                 /\ resp'.users = <<USERS'[idx]>>
                 /\ body = <<>> =>
                       USERS' = USERS /\ resp'.users = <<USERS[idx]>>

C6_PatchChangesSuppliedFields == [][C6_PatchStep]_vars

\* C6 witness: a Patch has just cleared the bio of the second of two users
\* and left the bio of the first.
C6_Witness ==
    /\ Len(USERS) = 2
    /\ resp.op = "patch" /\ resp.status = 200 /\ resp.id = USERS[2].id
    /\ USERS[2].bio = None /\ USERS[2].addresses = Some(<<aRome>>)
    /\ USERS[1].bio = Some(sHi)

\* what Get must return for a creation record
Expected(c, include_addresses) ==
    [id |-> c.id, name |-> c.input.name, email |-> c.input.email,
     age |-> c.input.age, bio |-> c.input.bio,
     addresses |-> IF include_addresses THEN c.input.addresses ELSE Some(<<>>),
     created_at |-> c.created_at]

C7_RoundTripState ==
    \A c \in created :
        /\ GetReply(c.id, TRUE).status = 200
        /\ GetReply(c.id, TRUE).users = <<Expected(c, TRUE)>>
        /\ GetReply(c.id, FALSE).status = 200
        /\ GetReply(c.id, FALSE).users = <<Expected(c, FALSE)>>

\* C7: for every id returned by a Create and not addressed by a Replace,
\* Patch or Delete since, Get answers 200 with the Create input, the id and
\* the created_at of the creation (with an empty addresses list when
\* include_addresses is false), whatever other requests ran; and a Get
\* leaves the user list as it was.
C7_RoundTripStep ==
    /\ C7_RoundTripState'
    /\ resp'.op = "get" =>
          \A inc \in BOOLEAN : get_user(resp'.id, inc) => USERS' = USERS

C7_RoundTrip == [][C7_RoundTripStep]_vars

\* C7 witness: user 1 was created with an address, user 2 has been patched
\* since, and a Get of user 1 without addresses has just answered.
C7_Witness ==
    /\ \E c \in created : c.id = 1 /\ c.input.addresses = Some(<<aRome>>)
    /\ Len(USERS) = 2
    /\ \A c \in created : c.id # 2
    /\ resp.op = "get" /\ resp.status = 200 /\ resp.id = 1
    /\ resp.users[1].addresses = Some(<<>>)
    /\ USERS[IndexOf(1)].addresses = Some(<<aRome>>)

(***************************************************************************)
(* C4: what List has to return, stated on the store.                       *)
(***************************************************************************)
Satisfies(u, qr) ==
    /\ qr.q # None =>
          \/ StrIn(lower(Val(qr.q)), lower(Val(u.name)))
          \/ StrIn(lower(Val(qr.q)), lower(Val(u.email)))
    /\ qr.min_age # None => Val(u.age) >= Val(qr.min_age)
    /\ qr.max_age # None => Val(u.age) <= Val(qr.max_age)

Filtered(qr) == {i \in DOMAIN USERS : Satisfies(USERS[i], qr)}

\* user j comes before user i in the order asked for; equal keys keep the
\* order of the store
ComesBefore(j, i, qr) ==
    LET kj == Val(SortKey(USERS[j], qr.sort_by))
        ki == Val(SortKey(USERS[i], qr.sort_by))
        less == IF qr.order = "desc" THEN KeyLess(qr.sort_by, ki, kj)
                ELSE KeyLess(qr.sort_by, kj, ki)
        more == IF qr.order = "desc" THEN KeyLess(qr.sort_by, kj, ki)
                ELSE KeyLess(qr.sort_by, ki, kj)
    IN  less \/ (~more /\ j < i)

\* the k-th user of the filtered and sorted sequence
Ranked(k, qr) ==
    USERS[CHOOSE i \in Filtered(qr) :
             Cardinality({j \in Filtered(qr) : ComesBefore(j, i, qr)}) = k - 1]

PageRequests == {qr \in ListQueries : ListQueryValid(qr)}

\* C4: for every page >= 1 and limit in 1..100, List answers 200 with total
\* the number of stored users that satisfy the filters, whatever the page
\* and limit, and with items the elements (page-1)*limit+1 .. page*limit of
\* the filtered and sorted sequence that exist: none beyond the last page.
C4_ListPage ==
    \A qr \in PageRequests :
        LET reply == ListReply(USERS, qr)
            total == Cardinality(Filtered(qr))
            start == (qr.page - 1) * qr.limit
            left == IF total > start THEN total - start ELSE 0
            n == IF left < qr.limit THEN left ELSE qr.limit
        IN  /\ reply.status = 200
            /\ reply.total = total
            /\ reply.page = qr.page /\ reply.limit = qr.limit
            /\ reply.users = [k \in 1..n |-> Ranked(start + k, qr)]

\* C4 witness: three users are stored, two satisfy the filters, and a List
\* of a page beyond the last has just answered with no items and total 2.
C4_Witness ==
    /\ Len(USERS) = 3
    /\ resp.op = "list" /\ resp.status = 200
    /\ resp.total = 2 /\ resp.users = <<>> /\ resp.page = 3 /\ resp.limit = 1

\* C10: a request that has ended has acquired exactly one session and that
\* session is closed, whether the handler returned or raised 404; a request
\* never holds more than one session, and none before get_db has run.
C10_SessionClosed ==
    \A r \in Requests :
        /\ reqs[r].acquired <= 1
        /\ reqs[r].pc = "done" =>
              reqs[r].acquired = 1 /\ reqs[r].session = "closed"
        /\ reqs[r].pc \in {"handler", "finally"} =>
              reqs[r].acquired = 1 /\ reqs[r].session = "open"
        /\ reqs[r].pc \in {"idle", "get_db"} =>
              reqs[r].acquired = 0 /\ reqs[r].session = "none"

\* C10 witness: a Delete of an absent student has ended with 404 and its
\* session closed, while another request still holds its open session.
C10_Witness ==
    \E r, t \in Requests :
        /\ reqs[r].pc = "done" /\ reqs[r].op = "delete_student"
        /\ reqs[r].status = 404 /\ reqs[r].session = "closed"
        /\ reqs[t].pc = "handler" /\ reqs[t].session = "open"

====
